---- MODULE Spec2Model ----
(***************************************************************************)
(* A model of the react-bot backend (src/server.js, src/upload.js): the    *)
(* credential store, the session token codec, the file registry, the blob  *)
(* store and the request handlers that work on them.                       *)
(*                                                                         *)
(* Node runs one handler at a time and a handler gives up control only at  *)
(* an await (or inside a middleware that streams).  An action of the model *)
(* is therefore one run of a handler from one suspension point to the      *)
(* next: everything the code does synchronously in between is part of the  *)
(* action.  A database call takes effect at one instant between the await  *)
(* and its continuation; that instant is put at the start of the action    *)
(* that runs the continuation's predecessor, which loses no interleaving   *)
(* of the stores.                                                          *)
(***************************************************************************)
EXTENDS Integers, Sequences, FiniteSets, TLC

VARIABLES
    users,    \* credential store: the User collection (server.js:66-70)
    issued,   \* the tokens generateToken has signed so far, with the instant
    jar,      \* the browser's cookie carrier, per client (sendToken/clearCookie)
    now,      \* Date.now(), in milliseconds
    files,    \* file registry: the UploadedFile collection (upload.js:13-22)
    blobs,    \* blob store: UPLOAD_DIR, stored name -> content
    uploads,  \* how many stored names multer has generated
    req       \* the requests in flight, one per slot, and their responses

vars == <<users, issued, jar, now, files, blobs, uploads, req>>

(***************************************************************************)
(* Bounds of the model.                                                    *)
(***************************************************************************)
MaxSlots == 2        \* requests in flight at the same time
MaxUploads == 1      \* stored names multer generates in one behaviour
MaxTokens == 2       \* tokens signed in one behaviour of the auth model

Slots == 1..MaxSlots

(***************************************************************************)
(* Session Token Codec: jsonwebtoken as server.js and upload.js use it.    *)
(***************************************************************************)
Secret == "JWT_SECRET"
TokenLifetimeSec == 604800

NoUser == 0

NoCookie == [kind |-> "none", sub |-> NoUser, iat |-> 0, exp |-> 0, key |-> ""]
Malformed == [kind |-> "malformed", sub |-> NoUser, iat |-> 0, exp |-> 0, key |-> ""]

\* jwt.sign({ id }, key, { expiresIn: "7d" }) at instant t (ms): iat is the
\* instant in whole seconds, exp = iat + 7 days.
JwtSign(id, key, t) ==
    [kind |-> "jwt", sub |-> id, iat |-> t \div 1000,
     exp |-> (t \div 1000) + TokenLifetimeSec, key |-> key]

generateToken(id, t) == JwtSign(id, Secret, t)

JwtVerifyInclusive(c, key, t) ==
    IF c.kind # "jwt" THEN "malformed"
    ELSE IF c.key # key THEN "invalid signature"
    ELSE IF t \div 1000 > c.exp THEN "expired"
    ELSE "ok"

\* jwt.verify(token, key) at instant t: the token must parse, carry a valid
\* signature under key, and the clock in whole seconds must be before exp.
JwtVerify(c, key, t) ==
    IF c.kind # "jwt" THEN "malformed"
    ELSE IF c.key # key THEN "invalid signature"
    ELSE IF t \div 1000 >= c.exp THEN "expired"
    ELSE "ok"

Unauth(msg) == [ok |-> FALSE, userId |-> NoUser, status |-> 401, message |-> msg]
Authed(id) == [ok |-> TRUE, userId |-> id, status |-> 0, message |-> ""]

checkTokenOfCarrier(c, t) ==
    IF c.kind = "none" \/ c # jar THEN Unauth("Unauthorized")
    ELSE IF JwtVerify(c, Secret, t) # "ok" THEN Unauth("Unauthorized")
    ELSE Authed(c.sub)

\* server.js checkToken: every failure is caught and answered alike.
checkToken(c, t) ==
    IF c.kind = "none" THEN Unauth("Unauthorized")
    ELSE IF JwtVerify(c, Secret, t) # "ok" THEN Unauth("Unauthorized")
    ELSE Authed(c.sub)

\* upload.js auth: a missing token and a token jwt.verify rejects are
\* answered with different messages.
auth(c, t) ==
    IF c.kind = "none" THEN Unauth("Unauthorized")
    ELSE IF JwtVerify(c, Secret, t) # "ok" THEN Unauth("Invalid token")
    ELSE Authed(c.sub)

(***************************************************************************)
(* Requests.  A slot holds a request from its arrival until its client   *)
(* has taken the response (or has given up waiting for one).               *)
(***************************************************************************)
NoFile == [id |-> 0, filename |-> 0, uploadedBy |-> NoUser, uploadedAt |-> 0]

Idle ==
    [op |-> "idle", pc |-> "idle", cookie |-> NoCookie, userId |-> NoUser,
     id |-> 0, file |-> NoFile, status |-> 0, body |-> "", list |-> <<>>,
     doc |-> "", context |-> <<>>, upstream |-> "", calls |-> 0,
     email |-> "", password |-> <<>>, mimetype |-> "", message |-> FALSE]

Free(r) == req[r].pc = "idle"

\* "done": the response is sent.  "unhandled": the handler's promise was
\* rejected with nobody to catch it, and the request gets no response.
Ended(r) == req[r].pc \in {"done", "unhandled"}

\* A new request arrives in the lowest free slot.
Arrives(r) == Free(r) /\ \A q \in Slots : q < r => ~Free(q)

New(op, c, id) == [Idle EXCEPT !.op = op, !.pc = "run", !.cookie = c, !.userId = id]

Respond(rq, status, body) == [rq EXCEPT !.pc = "done", !.status = status, !.body = body]

\* No response is waiting to be taken.  The client takes a response as soon
\* as it is sent (or gives up at once on a request that will get none), so
\* a slot is never held by a request that has ended.
Quiet == \A q \in Slots : ~Ended(q)

\* The client takes the response, or gives up: the slot is free again.
Close(r) ==
    /\ Ended(r)
    /\ req' = [req EXCEPT ![r] = Idle]
    /\ UNCHANGED <<users, issued, jar, now, files, blobs, uploads>>

(***************************************************************************)
(* The clock.  An instant is an input of the environment; it only grows.   *)
(***************************************************************************)
Tick(instants) ==
    /\ \E t \in instants : t > now /\ now' = t
    /\ UNCHANGED <<users, issued, jar, files, blobs, uploads, req>>

(***************************************************************************)
(* File Registry and Blob Store (upload.js).                               *)
(***************************************************************************)
AllowedTypes == {"application/pdf", "text/plain", "image/png", "image/jpeg"}

NoPart == [present |-> FALSE, mimetype |-> "", big |-> FALSE, doc |-> ""]
Part(mimetype, big, doc) ==
    [present |-> TRUE, mimetype |-> mimetype, big |-> big, doc |-> doc]

BlobExists(name) == \E b \in blobs : b.name = name
BlobOf(name) == CHOOSE b \in blobs : b.name = name

MulterAcceptsAnyType(part) == ~part.big

\* upload.single("file"): fileFilter and the size limit reject with an Error
\* that Express answers; neither leaves a blob behind.
MulterAccepts(part) == part.mimetype \in AllowedTypes /\ ~part.big

\* router.post("/upload"), up to the end of multer's write: auth, then
\* upload.single("file") stores the part under a generated name.
UploadStore(r, c, part) ==
    /\ Arrives(r)
    /\ LET a == auth(c, now)
           rq == [New("upload", c, a.userId) EXCEPT !.mimetype = part.mimetype]
       IN  IF ~a.ok
           THEN /\ req' = [req EXCEPT ![r] = Respond(rq, a.status, a.message)]
                /\ UNCHANGED <<blobs, uploads>>
           ELSE IF ~part.present
           THEN /\ req' = [req EXCEPT ![r] = Respond(rq, 400, "No file uploaded")]
                /\ UNCHANGED <<blobs, uploads>>
           ELSE IF ~MulterAccepts(part)
           THEN /\ req' = [req EXCEPT ![r] =
                            Respond(rq, 500,
                                IF part.mimetype \notin AllowedTypes
                                THEN "File type not allowed" ELSE "File too large")]
                /\ UNCHANGED <<blobs, uploads>>
           ELSE /\ uploads < MaxUploads
                /\ uploads' = uploads + 1
                /\ blobs' = blobs \cup {[name |-> uploads + 1, doc |-> part.doc]}
                /\ req' = [req EXCEPT ![r] = [rq EXCEPT !.pc = "create", !.id = uploads + 1]]
    /\ UNCHANGED <<users, issued, jar, now, files>>

\* The handler of router.post("/upload"): UploadedFile.create and the reply.
UploadCreate(r) ==
    /\ req[r].op = "upload" /\ req[r].pc = "create"
    /\ LET f == [id |-> req[r].id, filename |-> req[r].id,
                 uploadedBy |-> req[r].userId, uploadedAt |-> now]
       IN  /\ files' = files \cup {f}
           /\ req' = [req EXCEPT ![r] = Respond([req[r] EXCEPT !.file = f], 200, "success")]
    /\ UNCHANGED <<users, issued, jar, now, blobs, uploads>>

OwnedByAnyone(id) == files

\* UploadedFile.find({ uploadedBy: id })
OwnedBy(id) == {f \in files : f.uploadedBy = id}

SortedOldestFirst(S) ==
    {s \in [1..Cardinality(S) -> S] :
        /\ \A i, j \in 1..Cardinality(S) : i # j => s[i] # s[j]
        /\ \A i, j \in 1..Cardinality(S) : i < j => s[i].uploadedAt <= s[j].uploadedAt}

\* find(...).sort({ uploadedAt: -1 }): every order of the records that is
\* newest first; records of the same instant come in either order.
SortedNewestFirst(S) ==
    {s \in [1..Cardinality(S) -> S] :
        /\ \A i, j \in 1..Cardinality(S) : i # j => s[i] # s[j]
        /\ \A i, j \in 1..Cardinality(S) : i < j => s[i].uploadedAt >= s[j].uploadedAt}

\* router.get("/files")
ListFiles(r, c) ==
    /\ Arrives(r)
    /\ LET a == auth(c, now)
           rq == New("list", c, a.userId)
       IN  IF ~a.ok
           THEN req' = [req EXCEPT ![r] = Respond(rq, a.status, a.message)]
           ELSE \E s \in SortedNewestFirst(OwnedBy(a.userId)) :
                    req' = [req EXCEPT ![r] = Respond([rq EXCEPT !.list = s], 200, "success")]
    /\ UNCHANGED <<users, issued, jar, now, files, blobs, uploads>>

\* An id that is no ObjectId: the query throws a CastError.
BadId == 0

FindOwnedAnyOwner(id, owner) == {f \in files : f.id = id}

\* UploadedFile.findOne({ _id: id, uploadedBy: owner })
FindOwned(id, owner) == {f \in files : f.id = id /\ f.uploadedBy = owner}

\* router.delete("/files/:id"), up to the answer of findOne.
DeleteFind(r, c, id) ==
    /\ Arrives(r)
    /\ LET a == auth(c, now)
           rq == [New("delete", c, a.userId) EXCEPT !.id = id]
       IN  IF ~a.ok
           THEN req' = [req EXCEPT ![r] = Respond(rq, a.status, a.message)]
           ELSE IF id = BadId
           THEN req' = [req EXCEPT ![r] = Respond(rq, 500, "Delete failed")]
           ELSE IF FindOwned(id, a.userId) = {}
           THEN req' = [req EXCEPT ![r] = Respond(rq, 404, "File not found")]
           ELSE \E f \in FindOwned(id, a.userId) :
                    req' = [req EXCEPT ![r] = [rq EXCEPT !.pc = "unlink", !.file = f]]
    /\ UNCHANGED <<users, issued, jar, now, files, blobs, uploads>>

DeleteUnlinkForgiving(r) ==
    /\ req[r].op = "delete" /\ req[r].pc = "unlink"
    /\ blobs' = {b \in blobs : b.name # req[r].file.filename}
    /\ req' = [req EXCEPT ![r].pc = "deleteOne"]
    /\ UNCHANGED <<users, issued, jar, now, files, uploads>>

DeleteUnlinkAndAnswer(r) ==
    /\ req[r].op = "delete" /\ req[r].pc = "unlink"
    /\ blobs' = {b \in blobs : b.name # req[r].file.filename}
    /\ req' = [req EXCEPT ![r] = Respond(req[r], 200, "success")]
    /\ UNCHANGED <<users, issued, jar, now, files, uploads>>

\* fs.unlinkSync throws when the blob is absent; the catch answers 500.
DeleteUnlink(r) ==
    /\ req[r].op = "delete" /\ req[r].pc = "unlink"
    /\ IF BlobExists(req[r].file.filename)
       THEN /\ blobs' = {b \in blobs : b.name # req[r].file.filename}
            /\ req' = [req EXCEPT ![r].pc = "deleteOne"]
       ELSE /\ req' = [req EXCEPT ![r] = Respond(req[r], 500, "Delete failed")]
            /\ UNCHANGED blobs
    /\ UNCHANGED <<users, issued, jar, now, files, uploads>>

DeleteOneKeepsRecord(r) ==
    /\ req[r].op = "delete" /\ req[r].pc = "deleteOne"
    /\ req' = [req EXCEPT ![r] = Respond(req[r], 200, "success")]
    /\ UNCHANGED <<users, issued, jar, now, files, blobs, uploads>>

\* file.deleteOne() and the reply.
DeleteOne(r) ==
    /\ req[r].op = "delete" /\ req[r].pc = "deleteOne"
    /\ files' = {f \in files : f.id # req[r].file.id}
    /\ req' = [req EXCEPT ![r] = Respond(req[r], 200, "success")]
    /\ UNCHANGED <<users, issued, jar, now, blobs, uploads>>

\* The process stops and starts again: the requests in flight are lost, the
\* stores and the clients' cookies are not.
Crash ==
    /\ \E r \in Slots : ~Free(r) /\ ~Ended(r)
    /\ req' = [r \in Slots |-> IF Ended(r) THEN req[r] ELSE Idle]
    /\ UNCHANGED <<users, issued, jar, now, files, blobs, uploads>>

(***************************************************************************)
(* Text Extractor and Context Builder (server.js, /api/chat).  A text is a *)
(* sequence of runs [ch, n]: the character ch repeated n >= 1 times.       *)
(***************************************************************************)
ContextLimit == 6000

Whitespace == {" ", "\n", "\t"}

RECURSIVE TextLen(_)
TextLen(t) == IF t = <<>> THEN 0 ELSE Head(t).n + TextLen(Tail(t))

IsBlankEmptyOnly(t) == t = <<>>

\* !text || !text.trim()
IsBlank(t) == \A i \in 1..Len(t) : t[i].ch \in Whitespace

SliceWhole(t, n) == t

\* text.slice(0, n)
RECURSIVE Slice(_, _)
Slice(t, n) ==
    IF t = <<>> \/ n <= 0 THEN <<>>
    ELSE IF Head(t).n >= n THEN <<[ch |-> Head(t).ch, n |-> n]>>
    ELSE <<Head(t)>> \o Slice(Tail(t), n - Head(t).n)

\* What pdfParse makes of the stored bytes, by the kind of document.
PdfParse(doc) ==
    CASE doc = "readable" -> [ok |-> TRUE, text |-> <<[ch |-> "a", n |-> 25]>>]
      [] doc = "long"     -> [ok |-> TRUE, text |-> <<[ch |-> "a", n |-> 5999],
                                                      [ch |-> "b", n |-> 2],
                                                      [ch |-> "c", n |-> 3999]>>]
      [] doc = "padded"   -> [ok |-> TRUE, text |-> <<[ch |-> " ", n |-> 6000],
                                                      [ch |-> "a", n |-> 10]>>]
      [] doc = "scanned"  -> [ok |-> TRUE, text |-> <<>>]
      [] doc = "blank"    -> [ok |-> TRUE, text |-> <<[ch |-> "\n", n |-> 2],
                                                      [ch |-> " ", n |-> 1]>>]
      [] OTHER            -> [ok |-> FALSE, text |-> <<>>]

NoDocumentReply == "Please upload a PDF first."
BlobMissingReply == "Uploaded file missing on server."
NoReadableTextReply == "No readable text found in PDF."
AiFailedReply == "AI failed to answer from the document"
FallbackPhrase == "Answer not found in the provided document."
Undefined == "undefined"
RawUpstreamBody == "raw upstream body"

Oldest(owner) ==
    {f \in OwnedBy(owner) : \A g \in OwnedBy(owner) : g.uploadedAt >= f.uploadedAt}

\* UploadedFile.findOne({ uploadedBy }).sort({ uploadedAt: -1 }): a record
\* of the owner that no other record of the owner is newer than.
MostRecent(owner) ==
    {f \in OwnedBy(owner) : \A g \in OwnedBy(owner) : g.uploadedAt <= f.uploadedAt}

ChatFindUnvalidated(r, c, hasMessage) ==
    /\ Arrives(r)
    /\ LET a == checkToken(c, now)
           rq == [New("chat", c, a.userId) EXCEPT !.message = hasMessage]
       IN  IF ~a.ok
           THEN req' = [req EXCEPT ![r] = Respond(rq, a.status, a.message)]
           ELSE IF MostRecent(a.userId) = {}
           THEN req' = [req EXCEPT ![r] = Respond(rq, 200, NoDocumentReply)]
           ELSE \E f \in MostRecent(a.userId) :
                    req' = [req EXCEPT ![r] = [rq EXCEPT !.pc = "extract", !.file = f]]
    /\ UNCHANGED <<users, issued, jar, now, files, blobs, uploads>>

\* app.post("/api/chat"), up to the answer of findOne.
ChatFind(r, c, hasMessage) ==
    /\ Arrives(r)
    /\ LET a == checkToken(c, now)
           rq == [New("chat", c, a.userId) EXCEPT !.message = hasMessage]
       IN  IF ~a.ok
           THEN req' = [req EXCEPT ![r] = Respond(rq, a.status, a.message)]
           ELSE IF ~hasMessage
           THEN req' = [req EXCEPT ![r] = Respond(rq, 400, "Message required")]
           ELSE IF MostRecent(a.userId) = {}
           THEN req' = [req EXCEPT ![r] = Respond(rq, 200, NoDocumentReply)]
           ELSE \E f \in MostRecent(a.userId) :
                    req' = [req EXCEPT ![r] = [rq EXCEPT !.pc = "extract", !.file = f]]
    /\ UNCHANGED <<users, issued, jar, now, files, blobs, uploads>>

\* existsSync, readFileSync, pdfParse, the text check, slice and the start
\* of axios.post.
ChatExtract(r) ==
    /\ req[r].op = "chat" /\ req[r].pc = "extract"
    /\ IF ~BlobExists(req[r].file.filename)
       THEN req' = [req EXCEPT ![r] = Respond(req[r], 200, BlobMissingReply)]
       ELSE LET doc == BlobOf(req[r].file.filename).doc
                pdf == PdfParse(doc)
                rq == [req[r] EXCEPT !.doc = doc]
            IN  IF ~pdf.ok
                THEN req' = [req EXCEPT ![r] = Respond(rq, 500, AiFailedReply)]
                ELSE IF IsBlank(pdf.text)
                THEN req' = [req EXCEPT ![r] = Respond(rq, 200, NoReadableTextReply)]
                ELSE req' = [req EXCEPT ![r] =
                                [rq EXCEPT !.pc = "inference",
                                           !.context = Slice(pdf.text, ContextLimit),
                                           !.upstream = "pending",
                                           !.calls = rq.calls + 1]]
    /\ UNCHANGED <<users, issued, jar, now, files, blobs, uploads>>

\* What the inference endpoint may do with the one call.
Outcomes ==
    {[kind |-> "answer", content |-> "an answer"],
     [kind |-> "answer", content |-> FallbackPhrase],
     [kind |-> "no content", content |-> Undefined],
     [kind |-> "no choices", content |-> RawUpstreamBody],
     [kind |-> "status 500", content |-> RawUpstreamBody],
     [kind |-> "transport", content |-> "ECONNRESET"]}

ChatReplyLeaky(o) ==
    IF o.kind \in {"answer", "no content"}
    THEN [status |-> 200, body |-> o.content]
    ELSE [status |-> 500, body |-> o.content]

\* axios.post throws on a transport failure and on a status outside 2xx;
\* reading choices[0].message.content throws when choices[0].message is
\* missing, and yields undefined when only content is.
ChatReply(o) ==
    IF o.kind \in {"answer", "no content"}
    THEN [status |-> 200, body |-> o.content]
    ELSE [status |-> 500, body |-> AiFailedReply]

\* The endpoint's answer arrives: the rest of the handler, or its catch.
ChatReturn(r, o) ==
    /\ req[r].op = "chat" /\ req[r].pc = "inference" /\ req[r].upstream = "pending"
    /\ req' = [req EXCEPT ![r] =
                 Respond([req[r] EXCEPT !.upstream = o.kind],
                         ChatReply(o).status, ChatReply(o).body)]
    /\ UNCHANGED <<users, issued, jar, now, files, blobs, uploads>>

\* The endpoint takes the call and never answers.  axios.post is given no
\* timeout, so nothing in the handler runs again.
UpstreamSilent(r) ==
    /\ req[r].op = "chat" /\ req[r].pc = "inference" /\ req[r].upstream = "pending"
    /\ req' = [req EXCEPT ![r].upstream = "silent"]
    /\ UNCHANGED <<users, issued, jar, now, files, blobs, uploads>>

(***************************************************************************)
(* Credential Store and the session endpoints (server.js).  A password is  *)
(* a text, as above; <<>> is the field that is missing from the body.      *)
(***************************************************************************)
BcryptInputLimit == 72

\* bcryptjs hashes the first 72 bytes of the password with the salt.
BcryptDigest(pw, salt) == <<salt, Slice(pw, BcryptInputLimit)>>

\* bcrypt.hash(password, 12)
BcryptHash(pw, salt) == [cost |-> 12, salt |-> salt, digest |-> BcryptDigest(pw, salt)]

\* bcrypt.compare(password, hash)
BcryptCompare(pw, hash) == BcryptDigest(pw, hash.salt) = hash.digest

\* User.findOne({ email })
FindByEmail(email) == {u \in users : u.email = email}

\* The unique index on email (userSchema): an insert of a second record
\* with the same email is refused with a duplicate-key error.
InsertUser(u) == FindByEmail(u.email) = {}

InFlight(op) == Cardinality({r \in Slots : req[r].op = op /\ req[r].pc = "create"})

\* app.post("/api/signup"), up to the answer of findOne.
SignupFind(r, email, pw) ==
    /\ Arrives(r)
    /\ Cardinality(issued) + InFlight("signup") < MaxTokens
    /\ LET rq == [New("signup", NoCookie, NoUser) EXCEPT !.email = email, !.password = pw]
       IN  IF email = "" \/ pw = <<>>
           THEN req' = [req EXCEPT ![r] = Respond(rq, 400, "All fields required")]
           ELSE IF FindByEmail(email) # {}
           THEN req' = [req EXCEPT ![r] = Respond(rq, 409, "User already exists")]
           ELSE req' = [req EXCEPT ![r] = [rq EXCEPT !.pc = "create"]]
    /\ UNCHANGED <<users, issued, jar, now, files, blobs, uploads>>

\* bcrypt.hash, User.create, sendToken and the reply.  Nothing catches a
\* rejected User.create.
SignupCreate(r) ==
    /\ req[r].op = "signup" /\ req[r].pc = "create"
    /\ LET id == Cardinality(users) + 1
           u == [id |-> id, email |-> req[r].email,
                 password |-> BcryptHash(req[r].password, id)]
           token == generateToken(id, now)
       IN  IF InsertUser(u)
           THEN /\ users' = users \cup {u}
                /\ issued' = issued \cup {[token |-> token, at |-> now]}
                /\ jar' = token
                /\ req' = [req EXCEPT ![r] =
                             Respond([req[r] EXCEPT !.userId = id, !.cookie = token],
                                     200, "success")]
           ELSE /\ req' = [req EXCEPT ![r].pc = "unhandled"]
                /\ UNCHANGED <<users, issued, jar>>
    /\ UNCHANGED <<now, files, blobs, uploads>>

\* app.post("/api/login").  bcrypt.compare rejects a missing password, and
\* nothing catches it.
Login(r, email, pw) ==
    /\ Arrives(r)
    /\ Cardinality(issued) + InFlight("signup") < MaxTokens
    /\ LET rq == [New("login", NoCookie, NoUser) EXCEPT !.email = email, !.password = pw]
       IN  IF FindByEmail(email) = {}
           THEN /\ req' = [req EXCEPT ![r] = Respond(rq, 401, "Invalid credentials")]
                /\ UNCHANGED <<issued, jar>>
           ELSE \E u \in FindByEmail(email) :
                  IF pw = <<>>
                  THEN /\ req' = [req EXCEPT ![r] = [rq EXCEPT !.pc = "unhandled"]]
                       /\ UNCHANGED <<issued, jar>>
                  ELSE IF ~BcryptCompare(pw, u.password)
                  THEN /\ req' = [req EXCEPT ![r] = Respond(rq, 401, "Invalid credentials")]
                       /\ UNCHANGED <<issued, jar>>
                  ELSE LET token == generateToken(u.id, now)
                       IN  /\ issued' = issued \cup {[token |-> token, at |-> now]}
                           /\ jar' = token
                           /\ req' = [req EXCEPT ![r] =
                                        Respond([rq EXCEPT !.userId = u.id, !.cookie = token],
                                                200, "success")]
    /\ UNCHANGED <<users, now, files, blobs, uploads>>

\* app.get("/api/auth/check"): reading the email of a user that findById
\* did not find throws, and nothing catches it.
AuthCheck(r, c) ==
    /\ Arrives(r)
    /\ LET a == checkToken(c, now)
           rq == New("check", c, a.userId)
       IN  IF ~a.ok
           THEN req' = [req EXCEPT ![r] = Respond(rq, a.status, a.message)]
           ELSE IF \E u \in users : u.id = a.userId
           THEN req' = [req EXCEPT ![r] =
                          Respond([rq EXCEPT !.email =
                                      (CHOOSE u \in users : u.id = a.userId).email],
                                  200, "isAuthenticated")]
           ELSE req' = [req EXCEPT ![r] = [rq EXCEPT !.pc = "unhandled"]]
    /\ UNCHANGED <<users, issued, jar, now, files, blobs, uploads>>

\* app.post("/api/logout"): clears the cookie, whoever asks.
Logout(r) ==
    /\ Arrives(r)
    /\ jar' = NoCookie
    /\ req' = [req EXCEPT ![r] = Respond(New("logout", jar, NoUser), 200, "success")]
    /\ UNCHANGED <<users, issued, now, files, blobs, uploads>>

(***************************************************************************)
(* The session endpoints and the token check at the head of every          *)
(* protected endpoint, from an empty credential store.                     *)
(***************************************************************************)
Hour == 60 * 60 * 1000
SevenDays == 7 * 24 * Hour
EightDays == 8 * 24 * Hour

Password(n) == <<[ch |-> "p", n |-> n]>>

Emails == {"a@x.io", "b@x.io"}
Passwords == {Password(8), Password(9)}

\* A token signed with a key that is not the server's.
Forged == JwtSign(1, "not the secret", 0)

\* What a request may carry as its cookie: a token the server has signed
\* (the browser's, or one kept from before a logout), or something the
\* server has not signed.
AuthCookies == {k.token : k \in issued} \cup {NoCookie, Malformed, Forged}

AuthInstants == {SevenDays + Hour}

InitAuth ==
    /\ users = {}
    /\ issued = {}
    /\ jar = NoCookie
    /\ now = 0
    /\ files = {}
    /\ blobs = {}
    /\ uploads = 0
    /\ req = [r \in Slots |-> Idle]

NextAuth ==
    \/ \E r \in Slots, e \in Emails \cup {""}, p \in Passwords \cup {<<>>} : SignupFind(r, e, p)
    \/ \E r \in Slots : SignupCreate(r)
    \/ \E r \in Slots, e \in Emails, p \in Passwords \cup {<<>>} : Login(r, e, p)
    \/ \E r \in Slots : Logout(r)
    \/ \E r \in Slots, c \in AuthCookies : AuthCheck(r, c)
    \/ \E r \in Slots, c \in AuthCookies : ChatFind(r, c, FALSE)
    \/ \E r \in Slots, c \in AuthCookies : UploadStore(r, c, NoPart)
    \/ \E r \in Slots, c \in AuthCookies : ListFiles(r, c)
    \/ \E r \in Slots, c \in AuthCookies : DeleteFind(r, c, 1)
    \/ \E r \in Slots : Close(r)
    \/ Tick(AuthInstants)

SpecAuth == InitAuth /\ [][NextAuth]_vars

(***************************************************************************)
(* The token's lifetime: one client, and a clock that is read to the       *)
(* half second around the expiry.                                          *)
(***************************************************************************)
IssueInstants == {0, 500, 1000}
VerifyOffsets ==
    {SevenDays - Hour, SevenDays - 1000, SevenDays - 500, SevenDays,
     SevenDays + 500, SevenDays + Hour}
TokenInstants == IssueInstants \cup {t + d : t \in IssueInstants, d \in VerifyOffsets}

NextToken ==
    \/ SignupFind(1, "a@x.io", Password(8))
    \/ SignupCreate(1)
    \/ Login(1, "a@x.io", Password(8))
    \/ \E k \in issued : AuthCheck(1, k.token)
    \/ \E k \in issued : ChatFind(1, k.token, TRUE)
    \/ Close(1)
    \/ Tick(TokenInstants)

SpecToken == InitAuth /\ [][NextToken]_vars

(***************************************************************************)
(* Signing up and logging in, with passwords on both sides of what bcrypt  *)
(* reads: LongPassword("q") and LongPassword("r") differ in their 73rd     *)
(* character only.                                                         *)
(***************************************************************************)
LongPassword(c) == <<[ch |-> "p", n |-> BcryptInputLimit], [ch |-> c, n |-> 1]>>

LoginPasswords == {Password(8), LongPassword("q"), LongPassword("r")}

NextLogin ==
    \/ \E r \in Slots, e \in Emails, p \in LoginPasswords : SignupFind(r, e, p)
    \/ \E r \in Slots : SignupCreate(r)
    \/ \E r \in Slots, e \in Emails, p \in LoginPasswords \cup {<<>>} : Login(r, e, p)
    \/ \E r \in Slots : Close(r)

SpecLogin == InitAuth /\ [][NextLogin]_vars

(***************************************************************************)
(* The file and chat pipeline, for two users who have signed up: the first *)
(* at instant 0, the second eight days later, when the first logged in     *)
(* again.  The first user uploaded a document an hour after signing up.    *)
(***************************************************************************)
SignedUp ==
    {[id |-> 1, email |-> "a@x.io", password |-> BcryptHash(Password(8), 1)],
     [id |-> 2, email |-> "b@x.io", password |-> BcryptHash(Password(9), 2)]}
SessionLog ==
    {[token |-> generateToken(1, 0), at |-> 0],
     [token |-> generateToken(1, EightDays), at |-> EightDays],
     [token |-> generateToken(2, EightDays), at |-> EightDays]}

Session(u) == generateToken(u, EightDays)

\* The document uploaded before the behaviour starts; the names multer
\* generates in the behaviour are 1..MaxUploads.
Archived ==
    [id |-> MaxUploads + 1, filename |-> MaxUploads + 1,
     uploadedBy |-> 1, uploadedAt |-> Hour]

\* The first user's session of the first day has expired.
Cookies == {Session(1), Session(2), generateToken(1, 0), NoCookie, Malformed}
Parts ==
    {NoPart, Part("application/zip", FALSE, "readable"),
     Part("application/pdf", TRUE, "readable"),
     Part("application/pdf", FALSE, "readable")}
FileIds == 0..(MaxUploads + 1)

Init ==
    /\ users = SignedUp
    /\ issued = SessionLog
    /\ jar = Session(1)
    /\ now = EightDays
    /\ files = {Archived}
    /\ blobs = {[name |-> Archived.filename, doc |-> "readable"]}
    /\ uploads = 0
    /\ req = [r \in Slots |-> Idle]

\* The clock stands still in the pipeline: every record made in the
\* behaviour is newer than the archived one and as new as the others.
Next ==
    \/ \E r \in Slots, c \in Cookies, p \in Parts : Quiet /\ UploadStore(r, c, p)
    \/ \E r \in Slots : Quiet /\ UploadCreate(r)
    \/ \E r \in Slots, c \in Cookies : Quiet /\ ListFiles(r, c)
    \/ \E r \in Slots, c \in Cookies, id \in FileIds : Quiet /\ DeleteFind(r, c, id)
    \/ \E r \in Slots : Quiet /\ DeleteUnlink(r)
    \/ \E r \in Slots : Quiet /\ DeleteOne(r)
    \/ \E r \in Slots, c \in Cookies, m \in BOOLEAN : Quiet /\ ChatFind(r, c, m)
    \/ \E r \in Slots : Quiet /\ ChatExtract(r)
    \/ \E r \in Slots, o \in Outcomes : Quiet /\ ChatReturn(r, o)
    \/ \E r \in Slots : Quiet /\ UpstreamSilent(r)
    \/ \E r \in Slots : Close(r)

Spec == Init /\ [][Next]_vars

\* The same, on a machine that may stop and start again.
SpecCrash == Init /\ [][Next \/ Crash]_vars

(***************************************************************************)
(* Logging out and coming back with a token kept from before, around the   *)
(* instant the sessions of the eighth day expire.                          *)
(***************************************************************************)
LogoutInstants == {EightDays + SevenDays - 1000, EightDays + SevenDays}

KeptTokens == {k.token : k \in issued}

NextLogout ==
    \/ \E r \in Slots : Logout(r)
    \/ \E r \in Slots, c \in KeptTokens : AuthCheck(r, c)
    \/ \E r \in Slots, c \in KeptTokens : ChatFind(r, c, FALSE)
    \/ \E r \in Slots, c \in KeptTokens : UploadStore(r, c, NoPart)
    \/ \E r \in Slots, c \in KeptTokens : ListFiles(r, c)
    \/ \E r \in Slots, c \in KeptTokens : DeleteFind(r, c, 1)
    \/ \E r \in Slots : Close(r)
    \/ Tick(LogoutInstants)

SpecLogout == Init /\ [][NextLogout]_vars

(***************************************************************************)
(* One user's uploads and deletes racing each other, with every response   *)
(* kept until the client takes it.                                         *)
(***************************************************************************)
NextRace ==
    \/ \E r \in Slots : UploadStore(r, Session(1), Part("application/pdf", FALSE, "readable"))
    \/ \E r \in Slots : UploadCreate(r)
    \/ \E r \in Slots, id \in FileIds \ {BadId} : DeleteFind(r, Session(1), id)
    \/ \E r \in Slots : DeleteUnlink(r)
    \/ \E r \in Slots : DeleteOne(r)
    \/ \E r \in Slots : Close(r)

SpecRace == Init /\ [][NextRace]_vars

(***************************************************************************)
(* Context building and the inference call, for one user, every kind of    *)
(* document, and a store that starts empty.                                *)
(***************************************************************************)
Docs == {"readable", "long", "padded", "scanned", "blank", "corrupt"}

InitChat ==
    /\ users = SignedUp
    /\ issued = SessionLog
    /\ jar = Session(1)
    /\ now = EightDays
    /\ files = {}
    /\ blobs = {}
    /\ uploads = 0
    /\ req = [r \in Slots |-> Idle]

NextChat ==
    \/ \E r \in Slots, d \in Docs :
          Quiet /\ UploadStore(r, Session(1), Part("application/pdf", FALSE, d))
    \/ \E r \in Slots : Quiet /\ UploadCreate(r)
    \/ \E r \in Slots, id \in 1..MaxUploads : Quiet /\ DeleteFind(r, Session(1), id)
    \/ \E r \in Slots : Quiet /\ DeleteUnlink(r)
    \/ \E r \in Slots : Quiet /\ DeleteOne(r)
    \/ \E r \in Slots, m \in BOOLEAN : Quiet /\ ChatFind(r, Session(1), m)
    \/ \E r \in Slots : Quiet /\ ChatExtract(r)
    \/ \E r \in Slots, o \in Outcomes : Quiet /\ ChatReturn(r, o)
    \/ \E r \in Slots : Quiet /\ UpstreamSilent(r)
    \/ \E r \in Slots : Close(r)

SpecChat == InitChat /\ [][NextChat]_vars

\* The same, where a continuation whose promise has settled is run.
FairSpecChat ==
    /\ SpecChat
    /\ \A r \in Slots : WF_vars(ChatExtract(r))
    /\ \A r \in Slots : WF_vars(\E o \in Outcomes : ChatReturn(r, o))

(***************************************************************************)
(* The claims.                                                             *)
(***************************************************************************)
\* The cookie is a token the server signed and the clock has not reached
\* its expiry.
ValidSession(c) == c \in {k.token : k \in issued} /\ now \div 1000 < c.exp

\* Slot r takes a new request for endpoint op in this step.
Arrival(r, op) == req[r].pc = "idle" /\ req'[r].op = op

\* Request r, at stage pc of endpoint op, runs in this step.
Runs(r, op, pc) ==
    /\ req[r].op = op /\ req[r].pc = pc
    /\ req'[r].op = op /\ req'[r] # req[r]

\* C1: when a caller with a valid session asks to delete a file that another
\* user owns, the answer is 404 and neither the file registry nor the blob
\* store changes.
C1_ForeignDeleteIsNotFound ==
    [][\A r \in Slots :
         ( /\ Arrival(r, "delete")
           /\ ValidSession(req'[r].cookie)
           /\ \E f \in files : f.id = req'[r].id /\ f.uploadedBy # req'[r].cookie.sub )
         => ( /\ req'[r].pc = "done" /\ req'[r].status = 404
              /\ files' = files /\ blobs' = blobs )]_vars

C1_Witness ==
    \E r \in Slots, f \in files :
        /\ req[r].op = "delete" /\ req[r].pc = "done" /\ req[r].status = 404
        /\ ValidSession(req[r].cookie)
        /\ f.id = req[r].id /\ f.uploadedBy # req[r].cookie.sub
        /\ BlobExists(f.filename)

\* C2: when the owner's delete comes to remove the blob of a file whose
\* record is in the registry and whose blob is already gone, and no other
\* request is in flight, no error is answered, and the delete does not end
\* with the record still in the registry.
C2_DriftIsHealed ==
    [][\A r \in Slots :
         ( /\ Runs(r, "delete", "unlink")
           /\ req[r].file \in files
           /\ ~BlobExists(req[r].file.filename)
           /\ \A q \in Slots \ {r} : Free(q) )
         => ( /\ req'[r].status # 500
              /\ req'[r].pc = "done" => req[r].file \notin files' )]_vars

C4_NoChatIsLeftHanging ==
    \A r \in Slots :
        (req[r].op = "chat" /\ req[r].pc \in {"extract", "inference"})
        => ENABLED (ChatExtract(r) \/ \E o \in Outcomes : ChatReturn(r, o))

\* C5: when the inference endpoint never answers, the chat request is
\* still answered, as for a failed call, after the one call.
C5_SilentUpstreamTimesOut ==
    \A r \in Slots :
        (req[r].op = "chat" /\ req[r].upstream = "silent")
        ~> ( /\ req[r].op = "chat" /\ req[r].pc = "done"
             /\ req[r].body = AiFailedReply /\ req[r].calls = 1 )

Protected == {"chat", "check", "upload", "list", "delete"}

\* C6: two requests to the same protected endpoint that the token check
\* turned away got the same status and the same message, whatever was wrong
\* with their cookies.
C6_UnauthorizedIsUniform ==
    \A r, q \in Slots :
        ( /\ req[r].op \in Protected /\ req[q].op = req[r].op
          /\ req[r].pc = "done" /\ req[q].pc = "done"
          /\ ~ValidSession(req[r].cookie) /\ ~ValidSession(req[q].cookie)
          /\ req[r].status = 401 /\ req[q].status = 401 )
        => req[r].body = req[q].body

\* C7: no two records of the credential store have the same email, and a
\* signup with both fields that ended without creating its record was
\* answered 409.
C7_DuplicateSignupIsConflict ==
    /\ \A u, v \in users : u.email = v.email => u = v
    /\ \A r \in Slots :
          ( /\ req[r].op = "signup" /\ Ended(r)
            /\ req[r].email # "" /\ req[r].password # <<>>
            /\ req[r].userId = NoUser )
          => (req[r].pc = "done" /\ req[r].status = 409)

\* C8 as claimed: a token signed at instant T is accepted at every instant
\* before T + 7 days and turned away at every instant after.
C8_SevenDaysToTheInstant ==
    [][\A r \in Slots, k \in issued :
         ( /\ Arrival(r, "check") \/ Arrival(r, "chat")
           /\ req'[r].cookie = k.token )
         => /\ now < k.at + SevenDays => req'[r].status # 401
            /\ now > k.at + SevenDays => req'[r].status = 401]_vars

\* C8, amended: a token signed at instant T is accepted at every instant up
\* to T + 7 days - 1 second and turned away at every instant from T + 7 days
\* on.
C8_SevenDaysToTheSecond ==
    [][\A r \in Slots, k \in issued :
         ( /\ Arrival(r, "check") \/ Arrival(r, "chat")
           /\ req'[r].cookie = k.token )
         => /\ now <= k.at + SevenDays - 1000 => req'[r].status # 401
            /\ now >= k.at + SevenDays => req'[r].status = 401]_vars

C8_Witness ==
    \E r \in Slots, k \in issued :
        /\ req[r].op = "check" /\ req[r].pc = "done" /\ req[r].status = 401
        /\ req[r].cookie = k.token
        /\ k.at = 500 /\ now = k.at + SevenDays

\* C9: a chat request with a valid session and a message takes as its
\* document a file of the caller that no other file of the caller, as the
\* registry stands at the lookup, is newer than (none only if the caller
\* has none); it keeps that file, and the text it reads is that file's blob.
C9_ActiveDocument ==
    [][\A r \in Slots :
         /\ ( /\ Arrival(r, "chat")
              /\ ValidSession(req'[r].cookie)
              /\ req'[r].status # 400 )
            => LET owned == {f \in files : f.uploadedBy = req'[r].cookie.sub}
               IN  IF owned = {} THEN req'[r].file = NoFile
                   ELSE /\ req'[r].file \in owned
                        /\ \A g \in owned : g.uploadedAt <= req'[r].file.uploadedAt
         /\ (req[r].op = "chat" /\ req'[r].op = "chat")
            => req'[r].file = req[r].file
         /\ (Runs(r, "chat", "extract") /\ req'[r].doc # "")
            => \E b \in blobs : b.name = req[r].file.filename /\ b.doc = req'[r].doc]_vars

C9_Witness ==
    \E r \in Slots, g \in files :
        /\ req[r].op = "chat" /\ req[r].pc = "inference"
        /\ g.uploadedBy = req[r].file.uploadedBy
        /\ g.uploadedAt < req[r].file.uploadedAt

OnlyWhitespace(t) == \A i \in 1..Len(t) : t[i].ch \in {" ", "\n", "\t"}

SoftReply(rq, text) ==
    rq.pc = "done" /\ rq.status = 200 /\ rq.body = text /\ rq.calls = 0

\* C10: a chat request with a valid session and a message is answered 200
\* "Please upload a PDF first." when the caller owns no file at the lookup,
\* 200 "Uploaded file missing on server." when the chosen file's blob is
\* absent at the read, and 200 "No readable text found in PDF." when the
\* text extracted from the blob is empty or only whitespace; in all three
\* no inference call is made.
C10_SoftOutcomes ==
    [][\A r \in Slots :
         /\ ( /\ Arrival(r, "chat")
              /\ ValidSession(req'[r].cookie)
              /\ req'[r].status # 400
              /\ {f \in files : f.uploadedBy = req'[r].cookie.sub} = {} )
            => SoftReply(req'[r], NoDocumentReply)
         /\ (Runs(r, "chat", "extract") /\ ~BlobExists(req[r].file.filename))
            => SoftReply(req'[r], BlobMissingReply)
         /\ ( /\ Runs(r, "chat", "extract")
              /\ BlobExists(req[r].file.filename)
              /\ PdfParse(BlobOf(req[r].file.filename).doc).ok
              /\ OnlyWhitespace(PdfParse(BlobOf(req[r].file.filename).doc).text) )
            => SoftReply(req'[r], NoReadableTextReply)]_vars

C10_Witness ==
    \E r \in Slots :
        /\ req[r].op = "chat" /\ req[r].doc = "blank"
        /\ SoftReply(req[r], NoReadableTextReply)

Min(a, b) == IF a <= b THEN a ELSE b

\* c is a text that t starts with (both in runs of different characters).
RECURSIVE IsPrefix(_, _)
IsPrefix(c, t) ==
    \/ c = <<>>
    \/ /\ t # <<>>
       /\ Head(c).ch = Head(t).ch
       /\ \/ Head(c).n = Head(t).n /\ IsPrefix(Tail(c), Tail(t))
          \/ Head(c).n < Head(t).n /\ Tail(c) = <<>>

\* C11: when the text extracted from the chosen file's blob has a character
\* that is not whitespace, the inference endpoint is called once, and the
\* context of the call is the first min(|t|, 6000) characters of the text.
C11_ContextIsPrefix ==
    [][\A r \in Slots :
         ( /\ Runs(r, "chat", "extract")
           /\ BlobExists(req[r].file.filename)
           /\ PdfParse(BlobOf(req[r].file.filename).doc).ok
           /\ ~OnlyWhitespace(PdfParse(BlobOf(req[r].file.filename).doc).text) )
         => LET t == PdfParse(BlobOf(req[r].file.filename).doc).text
            IN  /\ req'[r].pc = "inference" /\ req'[r].calls = 1
                /\ TextLen(req'[r].context) = Min(TextLen(t), 6000)
                /\ IsPrefix(req'[r].context, t)]_vars

\* A text of 10,000 characters went out as its first 6,000.
C11_Witness ==
    \E r \in Slots :
        /\ req[r].op = "chat" /\ req[r].pc = "inference" /\ req[r].doc = "long"
        /\ TextLen(PdfParse("long").text) = 10000
        /\ req[r].context = <<[ch |-> "a", n |-> 5999], [ch |-> "b", n |-> 1]>>

\* A stored name that has neither a record nor a blob any more: with no
\* crash, only a delete that ran to its end leaves that behind.
Deleted(id) ==
    /\ id \in (1..uploads) \cup {Archived.id}
    /\ ~\E f \in files : f.id = id
    /\ ~BlobExists(id)

\* C12: the owner's delete of a file of the registry goes on to remove the
\* blob; finding the blob, it removes it and then the record and answers 200; a delete, by a caller with a valid session, of a
\* file that has been deleted is answered 404 and changes neither the file
\* registry nor the blob store.
C12_SecondDeleteIsNotFound ==
    [][\A r \in Slots :
         /\ ( /\ Arrival(r, "delete")
              /\ ValidSession(req'[r].cookie)
              /\ \E f \in files : f.id = req'[r].id /\ f.uploadedBy = req'[r].cookie.sub )
            => ( /\ req'[r].pc = "unlink" /\ req'[r].file \in files
                 /\ req'[r].file.id = req'[r].id )
         /\ (Runs(r, "delete", "unlink") /\ BlobExists(req[r].file.filename))
            => ( /\ req'[r].pc = "deleteOne"
                 /\ ~\E b \in blobs' : b.name = req[r].file.filename )
         /\ Runs(r, "delete", "deleteOne")
            => ( /\ req'[r].pc = "done" /\ req'[r].status = 200
                 /\ ~\E f \in files' : f.id = req[r].file.id
                 /\ ~\E b \in blobs' : b.name = req[r].file.filename )
         /\ ( /\ Arrival(r, "delete")
              /\ ValidSession(req'[r].cookie)
              /\ Deleted(req'[r].id) )
            => ( /\ req'[r].pc = "done" /\ req'[r].status = 404
                 /\ files' = files /\ blobs' = blobs )]_vars

\* The owner's second delete of the archived file was answered 404.
C12_Witness ==
    \E r \in Slots :
        /\ req[r].op = "delete" /\ req[r].pc = "done" /\ req[r].status = 404
        /\ req[r].cookie = Session(Archived.uploadedBy)
        /\ req[r].id = Archived.id
        /\ Deleted(Archived.id)

\* Request r runs a step of a handler in this step.
Acts(r) == req'[r] # req[r] /\ req'[r].op # "idle"

\* C13: a step of an upload, delete, list or chat request of one user leaves
\* the records of every other user, and the blobs they name, as they were;
\* the list it returns, the file it takes to delete or to chat about, and
\* the blob it reads as context are that user's own.
C13_OtherUsersAreUntouched ==
    [][\A r \in Slots :
         Acts(r) =>
           LET u == req'[r].userId
               others == {f \in files : f.uploadedBy # u}
           IN  /\ {f \in files' : f.uploadedBy # u} = others
               /\ \A f \in others, b \in blobs : b.name = f.filename => b \in blobs'
               /\ \A b \in blobs' \ blobs : \A f \in others : b.name # f.filename
               /\ \A i \in 1..Len(req'[r].list) : req'[r].list[i].uploadedBy = u
               /\ req'[r].file # NoFile => req'[r].file.uploadedBy = u
               /\ (Runs(r, "chat", "extract") /\ req'[r].doc # "")
                  => \E b \in blobs : /\ b.name = req'[r].file.filename
                                      /\ b.doc = req'[r].doc
                                      /\ \A f \in others : f.filename # b.name]_vars

\* The second user uploaded, chatted about and deleted a file of their own
\* while the first user's file and blob stayed.
C13_Witness ==
    \E r \in Slots :
        /\ req[r].op = "delete" /\ req[r].pc = "done" /\ req[r].status = 200
        /\ req[r].userId = 2 /\ req[r].file.uploadedBy = 2
        /\ Archived \in files /\ BlobExists(Archived.filename)

\* C14: a login with the email and the password of a signup that succeeded
\* is answered 200; a login with any other password is answered 401
\* "Invalid credentials", for an email that is registered as for one that
\* is not.
C14_LoginMatchesSignup ==
    [][\A r \in Slots :
         Arrival(r, "login")
         => /\ \A q \in Slots :
                 ( /\ req[q].op = "signup" /\ req[q].pc = "done" /\ req[q].status = 200
                   /\ req[q].email = req'[r].email )
                 => IF req'[r].password = req[q].password
                    THEN req'[r].pc = "done" /\ req'[r].status = 200
                    ELSE /\ req'[r].pc = "done" /\ req'[r].status = 401
                         /\ req'[r].body = "Invalid credentials"
            /\ FindByEmail(req'[r].email) = {}
                 => /\ req'[r].pc = "done" /\ req'[r].status = 401
                    /\ req'[r].body = "Invalid credentials"]_vars

\* C15: an upload that carries a file whose content type is not one of
\* application/pdf, text/plain, image/png and image/jpeg is turned away in
\* the step it arrives in: it is answered with an error, no stored name is
\* generated, and the blob store and the file registry stay as they were.
C15_DisallowedTypeWritesNothing ==
    [][\A r \in Slots :
         ( /\ Arrival(r, "upload")
           /\ req'[r].mimetype \notin
                 {"", "application/pdf", "text/plain", "image/png", "image/jpeg"} )
         => ( /\ req'[r].pc = "done" /\ req'[r].status >= 400
              /\ blobs' = blobs /\ files' = files /\ uploads' = uploads )]_vars

\* A caller with a valid session was refused a zip archive.
C15_Witness ==
    \E r \in Slots :
        /\ req[r].op = "upload" /\ req[r].pc = "done"
        /\ ValidSession(req[r].cookie)
        /\ req[r].mimetype = "application/zip"
        /\ req[r].body = "File type not allowed"

\* C16: a logout clears the cookie carrier and nothing else; after it, a
\* token signed before it is accepted at every protected endpoint, as the
\* user it was signed for, as long as it has not expired, and turned away
\* once it has.
C16_LogoutDoesNotRevoke ==
    [][\A r \in Slots :
         /\ Arrival(r, "logout")
            => ( /\ jar' = NoCookie /\ req'[r].status = 200
                 /\ users' = users /\ files' = files /\ blobs' = blobs )
         /\ ( /\ \E op \in Protected : Arrival(r, op)
              /\ jar = NoCookie
              /\ \E k \in issued : k.token = req'[r].cookie )
            => IF now \div 1000 < req'[r].cookie.exp
               THEN req'[r].status # 401 /\ req'[r].userId = req'[r].cookie.sub
               ELSE req'[r].pc = "done" /\ req'[r].status = 401]_vars

\* After a logout, the list endpoint served the holder of a kept token.
C16_Witness ==
    \E r \in Slots :
        /\ jar = NoCookie
        /\ req[r].op = "list" /\ req[r].pc = "done" /\ req[r].status = 200
        /\ req[r].cookie = Session(1) /\ req[r].userId = 1

\* The stages behind the boundary have left no trace on the request.
Untouched(rq) ==
    /\ rq.file = NoFile /\ rq.doc = "" /\ rq.context = <<>>
    /\ rq.upstream = "" /\ rq.calls = 0

\* C17: a chat request whose cookie is no valid session is answered 401,
\* and one with a valid session and no message 400, in the step it arrives
\* in, with no file looked up, no blob read, no text extracted and no
\* inference call made; a chat request that got to any of those stages had
\* a verified caller and a message.
C17_RefusedAtTheBoundary ==
    [][\A r \in Slots :
         /\ (Arrival(r, "chat") /\ ~ValidSession(req'[r].cookie))
            => /\ req'[r].pc = "done" /\ req'[r].status = 401
               /\ Untouched(req'[r])
         /\ (Arrival(r, "chat") /\ ValidSession(req'[r].cookie) /\ ~req'[r].message)
            => /\ req'[r].pc = "done" /\ req'[r].status = 400
               /\ Untouched(req'[r])
         /\ (req'[r].op = "chat" /\ ~Untouched(req'[r]))
            => /\ req'[r].message
               /\ req'[r].userId # NoUser
               /\ req'[r].userId = req'[r].cookie.sub]_vars

\* A request with a valid session and no message was refused, untouched.
C17_Witness ==
    \E r \in Slots :
        /\ req[r].op = "chat" /\ req[r].pc = "done" /\ Untouched(req[r])
        /\ req[r].status = 400 /\ ValidSession(req[r].cookie) /\ ~req[r].message
        /\ OwnedBy(req[r].userId) # {}

\* C18: the list answered to a caller with a valid session holds every
\* record of the registry that the caller owns, each once, and no other,
\* and no record in it is newer than one before it.
C18_ListIsOwnNewestFirst ==
    [][\A r \in Slots :
         (Arrival(r, "list") /\ ValidSession(req'[r].cookie))
         => LET l == req'[r].list
                own == {f \in files : f.uploadedBy = req'[r].cookie.sub}
            IN  /\ req'[r].pc = "done" /\ req'[r].status = 200
                /\ {l[i] : i \in 1..Len(l)} = own
                /\ Len(l) = Cardinality(own)
                /\ \A i, j \in 1..Len(l) : i < j => l[i].uploadedAt >= l[j].uploadedAt]_vars

\* A list of two records, the newer one first.
C18_Witness ==
    \E r \in Slots :
        /\ req[r].op = "list" /\ req[r].pc = "done" /\ req[r].status = 200
        /\ Len(req[r].list) = 2
        /\ req[r].list[1].uploadedAt > req[r].list[2].uploadedAt
        /\ req[r].list[2] = Archived

\* An upload or a delete is between its first step and its answer.
Writing(r) == req[r].op \in {"upload", "delete"} /\ ~Free(r) /\ ~Ended(r)

\* C19: on a machine that does not stop, whenever no upload and no delete
\* is in flight, every record of the file registry names a blob that is in
\* the blob store.
C19_RecordsHaveBlobs ==
    (\A r \in Slots : ~Writing(r))
    => \A f \in files : BlobExists(f.filename)

\* Uploads and deletes have run, one delete to its end, and none is in
\* flight: the record that is left has its blob.
C19_Witness ==
    /\ \A r \in Slots : ~Writing(r)
    /\ Deleted(Archived.id)
    /\ \E f \in files : BlobExists(f.filename)

\* Every delete that found the record of request r has ended.
AllEnded(r) ==
    \A p \in Slots : (req[p].op = "delete" /\ req[p].file = req[r].file) => Ended(p)

\* C20: of two deletes that both found the same record, at most one is
\* answered 200; once the deletes that found the record have ended, each of
\* the two has been answered, the one that was not answered 200 with an
\* error, and the record and its blob are gone.
C20_RacingDeletes ==
    \A r, q \in Slots :
        ( /\ r # q
          /\ req[r].op = "delete" /\ req[q].op = "delete"
          /\ req[r].file # NoFile /\ req[q].file = req[r].file )
        => /\ ~(req[r].status = 200 /\ req[q].status = 200)
           /\ Ended(r) => req[r].pc = "done"
           /\ (Ended(r) /\ req[r].status # 200) => req[r].status >= 400
           /\ AllEnded(r)
              => /\ req[r].file \notin files
                 /\ ~BlobExists(req[r].file.filename)

\* Both deletes of the archived file have ended: one 200, one 500.
C20_Witness ==
    \E r, q \in Slots :
        /\ req[r].op = "delete" /\ req[q].op = "delete"
        /\ req[r].file = Archived /\ req[q].file = Archived
        /\ req[r].pc = "done" /\ req[r].status = 200
        /\ req[q].pc = "done" /\ req[q].status = 500

====
